---- MODULE Spec2Model ----
(***************************************************************************)
(* Model of the report-analysis pipeline of HelpMate-Backend:              *)
(*   - parseGeminiResponse / analyzeMedicalReport (config/gemini.js,       *)
(*     stored in src/config/cloudinary.js lines 117-407),                  *)
(*   - the AiInsight and File schemas (src/models/AiInsight.js),           *)
(*   - POST /upload and processAIInsight (routes/files.js, stored in       *)
(*     src/unnamed/part_000 lines 420-969),                                *)
(*   - POST /analyze-file/:fileId (routes/ai.js, stored in                 *)
(*     src/routes/vitals.js lines 597-752).                                *)
(*                                                                         *)
(* A text is a sequence of lexemes.  A lexeme and a JSON value are both    *)
(* records [k, s, n, c]: kind, string content, number content, children.   *)
(* No string lexeme or prose word of the model contains a brace.           *)
(***************************************************************************)
EXTENDS Integers, Sequences, FiniteSets, TLC

VARIABLES
    files,      \* File collection: file id -> document (exists = FALSE: no such document)
    insights,   \* AiInsight collection: _id -> document (exists = FALSE: no such document)
    job,        \* processAIInsight invocation of each file: position and locals
    req,        \* POST /analyze-file requests: position and locals
    faults,     \* number of store operations that have rejected so far
    del,        \* the DELETE /:id request: position and locals
    upl,        \* POST /upload: the response sent for each file id
    snapshot,   \* checkNormalRanges under test: the Vitals document (this)
    alerts,     \* checkNormalRanges under test: the list returned by the first call
    realerts,   \* checkNormalRanges under test: the list returned by the second call
    vpc,        \* checkNormalRanges under test: "start" | "once" | "twice"
    rawText,    \* parseGeminiResponse under test: its argument
    parsed,     \* parseGeminiResponse under test: its return value
    reparsed,   \* parseGeminiResponse under test: its return value on JSON.stringify(parsed)
    ppc,        \* parseGeminiResponse under test: "start" | "done" | "again"
    mime,       \* the MIME detection of analyzeMedicalReport under test: buffer, type, pc
    lim         \* a limiter returned by sensitiveOperationLimit: parameters, Map, clock

vars == <<files, insights, job, req, faults, del, upl, rawText, parsed, reparsed, ppc,
          snapshot, alerts, realerts, vpc, mime, lim>>
pipeVars == <<files, insights, job, req, faults, del, upl>>
parseVars == <<rawText, parsed, reparsed, ppc>>
vitalVars == <<snapshot, alerts, realerts, vpc>>

----------------------------------------------------------------------------
(* Bounds *)

MaxReq == 1
MaxFaults == 2
MaxTextLen == 5
SummaryLen == 3
MaxTailLen == 3
MaxTime == 3

FileIds == {1}
ReqIds == 1..MaxReq
Users == {"u1", "u2"}
FileTypes == {"image", "pdf"}

----------------------------------------------------------------------------
(* Lexemes and JSON values *)

Node(k, s, n, c) == [k |-> k, s |-> s, n |-> n, c |-> c]

P(s) == Node("punct", s, 0, <<>>)
W == Node("word", "w", 0, <<>>)
S(s) == Node("str", s, 0, <<>>)
N(n) == Node("num", "", n, <<>>)
T == Node("bool", "true", 1, <<>>)
F == Node("bool", "false", 0, <<>>)

Undefined == Node("undef", "", 0, <<>>)
Arr(es) == Node("arr", "", 0, es)
Mem(key, v) == Node("mem", key, 0, <<v>>)
Obj(ms) == Node("obj", "", 0, ms)

\* JavaScript truthiness, as used by || in processAIInsight
Truthy(v) ==
    CASE v.k = "undef" -> FALSE
      [] v.k = "null" -> FALSE
      [] v.k = "bool" -> v.n = 1
      [] v.k = "num" -> v.n # 0
      [] v.k = "str" -> v.s # "" \/ v.c # <<>>
      [] OTHER -> TRUE

Or(a, b) == IF Truthy(a) THEN a ELSE b

\* o.key and o?.key: the last member of that name; undefined on a non-object
Get(o, key) ==
    IF o.k # "obj" THEN Undefined
    ELSE LET hits == {i \in 1..Len(o.c) : o.c[i].s = key}
         IN IF hits = {} THEN Undefined
            ELSE o.c[CHOOSE i \in hits : \A j \in hits : j <= i].c[1]

----------------------------------------------------------------------------
(* JSON.parse on a lexeme sequence *)

PFail == [ok |-> FALSE, v |-> Undefined, i |-> 0]
POk(v, i) == [ok |-> TRUE, v |-> v, i |-> i]

RECURSIVE ParseValue(_, _)
RECURSIVE ParseMembers(_, _, _)
RECURSIVE ParseElems(_, _, _)

ParseValue(t, i) ==
    IF i > Len(t) THEN PFail
    ELSE LET x == t[i] IN
         CASE x.k \in {"str", "num", "bool", "null"} -> POk(x, i + 1)
           [] x = P("{") ->
                IF i + 1 <= Len(t) /\ t[i + 1] = P("}")
                THEN POk(Obj(<<>>), i + 2)
                ELSE ParseMembers(t, i + 1, <<>>)
           [] x = P("[") ->
                IF i + 1 <= Len(t) /\ t[i + 1] = P("]")
                THEN POk(Arr(<<>>), i + 2)
                ELSE ParseElems(t, i + 1, <<>>)
           [] OTHER -> PFail

ParseMembers(t, i, acc) ==
    IF i + 1 > Len(t) \/ t[i].k # "str" \/ t[i + 1] # P(":") THEN PFail
    ELSE LET r == ParseValue(t, i + 2) IN
         IF ~r.ok \/ r.i > Len(t) THEN PFail
         ELSE LET acc2 == Append(acc, Mem(t[i].s, r.v)) IN
              IF t[r.i] = P("}") THEN POk(Obj(acc2), r.i + 1)
              ELSE IF t[r.i] = P(",") THEN ParseMembers(t, r.i + 1, acc2)
              ELSE PFail

ParseElems(t, i, acc) ==
    LET r == ParseValue(t, i) IN
    IF ~r.ok \/ r.i > Len(t) THEN PFail
    ELSE LET acc2 == Append(acc, r.v) IN
         IF t[r.i] = P("]") THEN POk(Arr(acc2), r.i + 1)
         ELSE IF t[r.i] = P(",") THEN ParseElems(t, r.i + 1, acc2)
         ELSE PFail

\* JSON.parse(span): a value, or throws
JsonParse(span) ==
    LET r == ParseValue(span, 1) IN
    IF r.ok /\ r.i = Len(span) + 1 THEN [throws |-> FALSE, v |-> r.v]
    ELSE [throws |-> TRUE, v |-> Undefined]

\* Mutation of JsonMatch: a lazy pattern, from the first "{" to the first "}" after it
JsonMatchLazy(text) ==
    LET opens == {i \in 1..Len(text) : text[i] = P("{")}
        first == IF opens = {} THEN 0 ELSE CHOOSE i \in opens : \A j \in opens : i <= j
        closes == {i \in 1..Len(text) : text[i] = P("}") /\ i > first}
        last == IF closes = {} THEN 0 ELSE CHOOSE i \in closes : \A j \in closes : i <= j
    IN IF first = 0 \/ last = 0 THEN [found |-> FALSE, span |-> <<>>]
       ELSE [found |-> TRUE, span |-> SubSeq(text, first, last)]

\* text.match(/\{[\s\S]*\}/): from the first "{" to the last "}" after it
JsonMatch(text) ==
    LET opens == {i \in 1..Len(text) : text[i] = P("{")}
        first == IF opens = {} THEN 0 ELSE CHOOSE i \in opens : \A j \in opens : i <= j
        closes == {i \in 1..Len(text) : text[i] = P("}") /\ i > first}
        last == IF closes = {} THEN 0 ELSE CHOOSE i \in closes : \A j \in closes : j <= i
    IN IF first = 0 \/ last = 0 THEN [found |-> FALSE, span |-> <<>>]
       ELSE [found |-> TRUE, span |-> SubSeq(text, first, last)]

\* text.substring(0, 500) + "...": a string whose content is the leading lexemes
Substring(text) ==
    Node("str", "...", 0, SubSeq(text, 1, IF Len(text) < SummaryLen THEN Len(text) ELSE SummaryLen))

Bilingual(e, u) == Obj(<<Mem("english", e), Mem("urdu", u)>>)

DegradedRecord(text) ==
    Obj(<< Mem("summary", Bilingual(Substring(text),
                S("Report ka summary Roman Urdu mein translate karna hai"))),
           Mem("keyFindings", Arr(<<>>)),
           Mem("recommendations", Bilingual(
                Arr(<<S("Consult with your doctor for detailed analysis")>>),
                Arr(<<S("Apne doctor se detailed analysis ke liye consult karein")>>))),
           Mem("doctorQuestions", Bilingual(
                Arr(<<S("What do these results mean for my health?")>>),
                Arr(<<S("Ye results mere health ke liye kya matlab hai?")>>))),
           Mem("riskFactors", Arr(<<>>)),
           Mem("followUpRequired", T),
           Mem("followUpTimeframe", S("1-month")),
           Mem("confidence", N(60)) >>)

ParseErrorRecord ==
    Obj(<< Mem("summary", Bilingual(
                S("Unable to parse report. Please consult your doctor."),
                S("Report parse nahi kar sakte. Doctor se consult karein."))),
           Mem("keyFindings", Arr(<<>>)),
           Mem("recommendations", Bilingual(
                Arr(<<S("Consult with your doctor")>>),
                Arr(<<S("Doctor se consult karein")>>))),
           Mem("doctorQuestions", Bilingual(
                Arr(<<S("Please explain these results")>>),
                Arr(<<S("In results ki explanation dijiye")>>))),
           Mem("riskFactors", Arr(<<>>)),
           Mem("followUpRequired", T),
           Mem("followUpTimeframe", S("1-month")),
           Mem("confidence", N(30)) >>)

\* Mutation of parseGeminiResponse: JSON.parse is given the whole text
parseGeminiResponseWhole(text) ==
    LET r == JsonParse(text) IN
    IF JsonMatch(text).found
    THEN IF r.throws THEN ParseErrorRecord ELSE r.v
    ELSE DegradedRecord(text)

parseGeminiResponse(text) ==
    LET jsonMatch == JsonMatch(text) IN
    IF jsonMatch.found
    THEN LET r == JsonParse(jsonMatch.span) IN
         IF r.throws THEN ParseErrorRecord ELSE r.v
    ELSE DegradedRecord(text)

----------------------------------------------------------------------------
(* analyzeMedicalReport *)

FallbackResponse ==
    Obj(<< Mem("summary", Bilingual(
                S("AI analysis temporarily unavailable. Please consult your healthcare provider for detailed analysis."),
                S("AI analysis abhi available nahi hai. Detailed analysis ke liye apne doctor se consult karein."))),
           Mem("keyFindings", Arr(<<>>)),
           Mem("recommendations", Bilingual(
                Arr(<<S("Consult with your healthcare provider for detailed analysis")>>),
                Arr(<<S("Detailed analysis ke liye apne doctor se consult karein")>>))),
           Mem("doctorQuestions", Bilingual(
                Arr(<<S("What do these results mean?"), S("Do I need any follow-up tests?")>>),
                Arr(<<S("Ye results ka matlab kya hai?"), S("Kya mujhe koi follow-up tests chahiye?")>>))),
           Mem("riskFactors", Arr(<<>>)),
           Mem("followUpRequired", T),
           Mem("followUpTimeframe", S("1-month")),
           Mem("confidence", N(30)) >>)

\* Behaviours of model.generateContent / response.text(): a text, or an exception
ModelThrows == [throws |-> TRUE, text |-> <<>>]
ModelReturns(text) == [throws |-> FALSE, text |-> text]

\* Mutation of FallbackResult: the catch block rethrows instead of returning the fallback
FallbackResultRethrows(calls, elapsed) ==
    [success |-> FALSE, data |-> Undefined, processingTime |-> elapsed,
     fallback |-> FALSE, threw |-> TRUE, modelCalls |-> calls]

\* The result of the catch block (lines 277-307)
FallbackResult(calls, elapsed) ==
    [success |-> TRUE, data |-> FallbackResponse, processingTime |-> elapsed,
     fallback |-> TRUE, threw |-> FALSE, modelCalls |-> calls]

\* The result of the two return statements of the try block
ParsedResult(text, elapsed) ==
    [success |-> TRUE, data |-> parseGeminiResponse(text), processingTime |-> elapsed,
     fallback |-> FALSE, threw |-> FALSE, modelCalls |-> 1]

\* fileData is [isBuffer]; out is what the external model does when it is called;
\* elapsed is Date.now() - startTime.  threw: an exception escapes the function.
analyzeMedicalReport(fileData, fileType, out, elapsed) ==
    IF fileType = "image" /\ ~fileData.isBuffer
    THEN FallbackResult(0, elapsed)
    ELSE IF out.throws
         THEN FallbackResult(1, elapsed)
         ELSE ParsedResult(out.text, elapsed)

----------------------------------------------------------------------------
(* The AiInsight schema and the document processAIInsight builds *)

FindingStatuses == {"normal", "high", "low", "abnormal", "critical"}
RiskLevels == {"low", "medium", "high"}
Timeframes == {"1-week", "2-weeks", "1-month", "3-months", "6-months", "1-year"}

\* Mongoose String path: cast, then required (an empty string is not accepted)
StringCastable(v) == v.k \in {"str", "num", "bool"}
RequiredString(v) == (v.k = "str" /\ Truthy(v)) \/ v.k \in {"num", "bool"}

\* keyFindings subdocument: parameter, value and status are required, status is an enum
FindingValid(x) ==
    /\ x.k = "obj"
    /\ RequiredString(Get(x, "parameter"))
    /\ RequiredString(Get(x, "value"))
    /\ Get(x, "status").k = "str"
    /\ Get(x, "status").s \in FindingStatuses

\* riskFactors subdocument: level is required and an enum
RiskValid(x) ==
    /\ x.k = "obj"
    /\ Get(x, "level").k = "str"
    /\ Get(x, "level").s \in RiskLevels

\* { english: [String], urdu: [String] }
StringListsValid(v) ==
    /\ v.k = "obj"
    /\ \A key \in {"english", "urdu"} :
          LET l == Get(v, key) IN
          l.k \in {"undef", "arr"} /\ \A i \in 1..Len(l.c) : StringCastable(l.c[i])

\* Document validation run by aiInsight.save()
Validate(doc) ==
    /\ RequiredString(doc.rawText)
    /\ RequiredString(doc.summary.english)
    /\ RequiredString(doc.summary.urdu)
    /\ doc.keyFindings.k = "arr"
    /\ \A i \in 1..Len(doc.keyFindings.c) : FindingValid(doc.keyFindings.c[i])
    /\ StringListsValid(doc.recommendations)
    /\ StringListsValid(doc.doctorQuestions)
    /\ doc.riskFactors.k = "arr"
    /\ \A i \in 1..Len(doc.riskFactors.c) : RiskValid(doc.riskFactors.c[i])
    /\ doc.followUpRequired.k = "bool"
    /\ doc.followUpTimeframe.k = "str" /\ doc.followUpTimeframe.s \in Timeframes
    /\ doc.confidence.k = "num" /\ doc.confidence.n >= 0 /\ doc.confidence.n <= 100
    /\ doc.processingTime.k = "num"

EmptyLists == Bilingual(Arr(<<>>), Arr(<<>>))

\* rawText: Buffer.isBuffer(fileData) ? `Image file: ${file.originalName}` : fileData
RawTextOf(fileData) ==
    IF fileData.isBuffer THEN S("Image file: name") ELSE S("Medical Report Analysis Request")

\* new AiInsight({...}) of processAIInsight.  Dates are instants counted from the
\* save of the document, so the timestamps option sets updatedAt to 0 there
BuildInsight(fileId, userId, fileData, geminiResult) ==
    LET analysis == geminiResult.data IN
    [ exists |-> TRUE,
      file |-> fileId,
      user |-> userId,
      rawText |-> RawTextOf(fileData),
      summary |-> [ english |-> Or(Get(Get(analysis, "summary"), "english"),
                                   Or(Get(analysis, "summary"), S("Analysis completed"))),
                    urdu |-> Or(Get(Get(analysis, "summary"), "urdu"),
                                S("Roman Urdu summary not available")) ],
      keyFindings |-> Or(Get(analysis, "keyFindings"), Arr(<<>>)),
      recommendations |-> Or(Get(analysis, "recommendations"), EmptyLists),
      doctorQuestions |-> Or(Get(analysis, "doctorQuestions"), EmptyLists),
      riskFactors |-> Or(Get(analysis, "riskFactors"), Arr(<<>>)),
      followUpRequired |-> Or(Get(analysis, "followUpRequired"), F),
      followUpTimeframe |-> Or(Get(analysis, "followUpTimeframe"), S("1-month")),
      confidence |-> Or(Get(analysis, "confidence"), N(60)),
      processingTime |-> Or(N(geminiResult.processingTime), N(0)),
      model |-> "gemini-1.0-pro",
      isReviewed |-> FALSE, reviewedBy |-> "", reviewedAt |-> 0, reviewNotes |-> Undefined,
      updatedAt |-> 0 ]

Finding(param, value, status) ==
    Obj(<<Mem("parameter", S(param)), Mem("value", S(value)), Mem("status", S(status))>>)
Risk(factor, level) == Obj(<<Mem("factor", S(factor)), Mem("level", S(level))>>)

\* new AiInsight({...}) of POST /analyze-file: fixed sample content
SampleInsight(fileId, userId, elapsed) ==
    [ exists |-> TRUE,
      file |-> fileId,
      user |-> userId,
      rawText |-> S("Sample extracted text from medical report"),
      summary |-> [ english |-> S("This is a comprehensive analysis of your medical report."),
                    urdu |-> S("Ye aapke medical report ka comprehensive analysis hai.") ],
      keyFindings |-> Arr(<<Finding("Hemoglobin", "12.5", "normal"),
                            Finding("Blood Sugar (Fasting)", "110", "high")>>),
      recommendations |-> Bilingual(Arr(<<S("Monitor blood sugar levels regularly")>>),
                                    Arr(<<S("Blood sugar levels regular monitor karein")>>)),
      doctorQuestions |-> Bilingual(Arr(<<S("Should I be concerned about my blood sugar levels?")>>),
                                    Arr(<<S("Kya mujhe blood sugar levels ke baare mein concern karna chahiye?")>>)),
      riskFactors |-> Arr(<<Risk("Elevated Blood Sugar", "medium")>>),
      followUpRequired |-> T,
      followUpTimeframe |-> S("3-months"),
      confidence |-> N(88),
      processingTime |-> N(elapsed),
      model |-> "gemini-1.5-pro",
      isReviewed |-> FALSE, reviewedBy |-> "", reviewedAt |-> 0, reviewNotes |-> Undefined,
      updatedAt |-> 0 ]

----------------------------------------------------------------------------
(* JSON.stringify, and the texts the external model is given to return *)

RECURSIVE Stringify(_)
RECURSIVE StringifyAll(_, _)

\* the members (isObj) or elements of a sequence, comma separated
StringifyAll(xs, isObj) ==
    IF xs = <<>> THEN <<>>
    ELSE LET x == xs[1]
             one == IF isObj THEN <<S(x.s), P(":")>> \o Stringify(x.c[1]) ELSE Stringify(x)
         IN IF Len(xs) = 1 THEN one ELSE one \o <<P(",")>> \o StringifyAll(Tail(xs), isObj)

Stringify(v) ==
    CASE v.k = "obj" -> <<P("{")>> \o StringifyAll(v.c, TRUE) \o <<P("}")>>
      [] v.k = "arr" -> <<P("[")>> \o StringifyAll(v.c, FALSE) \o <<P("]")>>
      [] OTHER -> <<v>>

\* The object of the prompt's JSON format, with the given findings, timeframe and confidence
Payload(findings, timeframe, confidence) ==
    Obj(<< Mem("summary", Bilingual(S("ok"), S("ok"))),
           Mem("keyFindings", Arr(findings)),
           Mem("recommendations", EmptyLists),
           Mem("doctorQuestions", EmptyLists),
           Mem("riskFactors", Arr(<<>>)),
           Mem("followUpRequired", F),
           Mem("followUpTimeframe", S(timeframe)),
           Mem("confidence", N(confidence)) >>)

WellFormedText == <<W>> \o Stringify(Payload(<<Finding("Hb", "12", "normal")>>, "3-months", 90))

\* Texts response.text() returns in the pipeline: empty, prose, a malformed block,
\* a well-formed payload, payloads the schema does not accept, and confidence 0
ModelTexts ==
    { <<>>,
      <<W, W>>,
      <<W, P("{"), W, P("}")>>,
      WellFormedText,
      Stringify(Obj(<<>>)),
      Stringify(Payload(<<>>, "1-month", 150)),
      Stringify(Payload(<<>>, "1-month", 0)),
      Stringify(Payload(<<Finding("Hb", "12", "elevated")>>, "1-month", 90)) }

ModelOutcomes == {ModelThrows} \cup {ModelReturns(t) : t \in ModelTexts}

\* Date.now() - startTime
Elapsed == {7}

----------------------------------------------------------------------------
(* The MIME type analyzeMedicalReport attaches to image bytes (cloudinary.js lines
   224-235).  A Buffer is a sequence of bytes, a string a sequence of characters. *)

HexDigits == <<"0", "1", "2", "3", "4", "5", "6", "7", "8", "9", "a", "b", "c", "d", "e", "f">>

\* the two lower-case hexadecimal digits of a byte
HexOf(byte) == <<HexDigits[(byte \div 16) + 1], HexDigits[(byte % 16) + 1]>>

RECURSIVE HexAll(_)
HexAll(bytes) == IF bytes = <<>> THEN <<>> ELSE HexOf(Head(bytes)) \o HexAll(Tail(bytes))

\* buf.toString('hex', start, end): the bytes from start up to end or the end of the
\* buffer, whichever comes first
ToHex(buf, start, end) ==
    HexAll(SubSeq(buf, start + 1, IF end < Len(buf) THEN end ELSE Len(buf)))

\* str.startsWith(prefix)
StartsWith(str, prefix) ==
    Len(str) >= Len(prefix) /\ SubSeq(str, 1, Len(prefix)) = prefix

\* Mutation of DetectMime: mimeType is declared without its default
DetectMimeNoDefault(fileData) ==
    LET signature == ToHex(fileData, 0, 4) IN
    IF StartsWith(signature, <<"f", "f", "d", "8">>) THEN "image/jpeg"
    ELSE IF StartsWith(signature, <<"8", "9", "5", "0">>) THEN "image/png"
    ELSE IF StartsWith(signature, <<"4", "7", "4", "9">>) THEN "image/gif"
    ELSE IF StartsWith(signature, <<"4", "2", "4", "d">>) THEN "image/bmp"
    ELSE "undefined"

\* lines 224-235
DetectMime(fileData) ==
    LET signature == ToHex(fileData, 0, 4) IN
    IF StartsWith(signature, <<"f", "f", "d", "8">>) THEN "image/jpeg"
    ELSE IF StartsWith(signature, <<"8", "9", "5", "0">>) THEN "image/png"
    ELSE IF StartsWith(signature, <<"4", "7", "4", "9">>) THEN "image/gif"
    ELSE IF StartsWith(signature, <<"4", "2", "4", "d">>) THEN "image/bmp"
    ELSE "image/jpeg"

\* the bytes of the four prefixes (ff d8, 89 50, 47 49, 42 4d) and a byte of none
LeadBytes == {255, 216, 137, 80, 71, 73, 66, 77, 0}
TailBytes == {0, 255}

\* Buffers: up to two leading bytes followed by up to MaxTailLen further bytes
Buffers ==
    {h \o t : h \in UNION {[1..n -> LeadBytes] : n \in 0..2},
              t \in UNION {[1..n -> TailBytes] : n \in 0..MaxTailLen}}

NoMime == [pc |-> "off", buffer |-> <<>>, type |-> ""]

----------------------------------------------------------------------------
(* sensitiveOperationLimit (src/middleware/auth.js lines 96-119) *)

\* userAttempts.filter(time => now - time < windowMs)
Recent(userAttempts, now, windowMs) ==
    SelectSeq(userAttempts, LAMBDA time : now - time < windowMs)

\* Mutation of Limited: the test is recentAttempts.length > max
LimitedAbove(userAttempts, now, windowMs, max) ==
    Len(Recent(userAttempts, now, windowMs)) > max

\* lines 107-112: the request is answered 429
Limited(userAttempts, now, windowMs, max) ==
    Len(Recent(userAttempts, now, windowMs)) >= max

\* the parameters the factory is called with, in units of the clock
Windows == {2, 3}
Maxes == {1, 2}

----------------------------------------------------------------------------
(* Vitals.checkNormalRanges (src/models/Vitals.js lines 189-228) *)

\* A Number path of the document: a value, or undefined
Num(v) == [has |-> TRUE, v |-> v]
Missing == [has |-> FALSE, v |-> 0]

\* Mutation of Lt: undefined is compared as 0, as null would be
LtCoerced(x, n) == (IF x.has THEN x.v ELSE 0) < n

\* x > n and x < n of JavaScript: false when x is undefined
Gt(x, n) == x.has /\ x.v > n
Lt(x, n) == x.has /\ x.v < n

\* alerts.push(text) under a condition
PushIf(cond, text) == IF cond THEN <<text>> ELSE <<>>

\* Mutation of checkNormalRanges: the high thresholds are inclusive
checkNormalRangesInclusive(this) ==
    LET bp == this.bloodPressure
        bs == this.bloodSugar
        hr == this.heartRate
        tp == this.temperature
        ox == this.oxygenSaturation
    IN PushIf(bp.present /\ (Gt(bp.systolic, 139) \/ Gt(bp.diastolic, 89)),
              "High blood pressure detected")
       \o PushIf(bp.present /\ (Lt(bp.systolic, 90) \/ Lt(bp.diastolic, 60)),
              "Low blood pressure detected")
       \o PushIf(bs.present /\ Gt(bs.fasting, 125), "High fasting blood sugar")
       \o PushIf(bs.present /\ Gt(bs.postPrandial, 199), "High post-meal blood sugar")
       \o PushIf(hr.present /\ (Gt(hr.value, 99) \/ Lt(hr.value, 60)), "Abnormal heart rate")
       \o PushIf(tp.present /\ (Gt(tp.value, 1003) \/ Lt(tp.value, 970)),
              "Abnormal body temperature")
       \o PushIf(ox.present /\ Lt(ox.value, 95), "Low oxygen saturation")

\* this.<group> is the nested object or absent (present = FALSE); temperatures are in
\* tenths of a degree, so 100.4 is 1004 and 97 is 970
checkNormalRanges(this) ==
    LET bp == this.bloodPressure
        bs == this.bloodSugar
        hr == this.heartRate
        tp == this.temperature
        ox == this.oxygenSaturation
    IN PushIf(bp.present /\ (Gt(bp.systolic, 140) \/ Gt(bp.diastolic, 90)),
              "High blood pressure detected")
       \o PushIf(bp.present /\ (Lt(bp.systolic, 90) \/ Lt(bp.diastolic, 60)),
              "Low blood pressure detected")
       \o PushIf(bs.present /\ Gt(bs.fasting, 126), "High fasting blood sugar")
       \o PushIf(bs.present /\ Gt(bs.postPrandial, 200), "High post-meal blood sugar")
       \o PushIf(hr.present /\ (Gt(hr.value, 100) \/ Lt(hr.value, 60)), "Abnormal heart rate")
       \o PushIf(tp.present /\ (Gt(tp.value, 1004) \/ Lt(tp.value, 970)),
              "Abnormal body temperature")
       \o PushIf(ox.present /\ Lt(ox.value, 95), "Low oxygen saturation")

\* Values on and next to each threshold, and undefined
Opt(values) == {Missing} \cup {Num(v) : v \in values}

BloodPressures ==
    {[present |-> FALSE, systolic |-> Missing, diastolic |-> Missing]}
    \cup [present : {TRUE}, systolic : Opt({89, 90, 140, 141}), diastolic : Opt({59, 60, 90, 91})]
BloodSugars ==
    {[present |-> FALSE, fasting |-> Missing, postPrandial |-> Missing]}
    \cup [present : {TRUE}, fasting : Opt({126, 127}), postPrandial : Opt({200, 201})]
HeartRates ==
    {[present |-> FALSE, value |-> Missing]}
    \cup [present : {TRUE}, value : Opt({59, 60, 100, 101})]
Temperatures ==
    {[present |-> FALSE, value |-> Missing]}
    \cup [present : {TRUE}, value : Opt({969, 970, 1004, 1005})]
OxygenSaturations ==
    {[present |-> FALSE, value |-> Missing]}
    \cup [present : {TRUE}, value : Opt({94, 95})]

Snapshots ==
    [bloodPressure : BloodPressures, bloodSugar : BloodSugars, heartRate : HeartRates,
     temperature : Temperatures, oxygenSaturation : OxygenSaturations]

NoSnapshot ==
    [bloodPressure |-> [present |-> FALSE, systolic |-> Missing, diastolic |-> Missing],
     bloodSugar |-> [present |-> FALSE, fasting |-> Missing, postPrandial |-> Missing],
     heartRate |-> [present |-> FALSE, value |-> Missing],
     temperature |-> [present |-> FALSE, value |-> Missing],
     oxygenSaturation |-> [present |-> FALSE, value |-> Missing]]

----------------------------------------------------------------------------
(* The store *)

NoFile ==
    [exists |-> FALSE, user |-> "u1", fileType |-> "pdf", processingStatus |-> "pending",
     isProcessed |-> FALSE, aiInsight |-> 0, description |-> ""]

\* new File({...}) with the schema defaults (AiInsight.js lines 214-226)
NewFile(u, t) ==
    [exists |-> TRUE, user |-> u, fileType |-> t, processingStatus |-> "pending",
     isProcessed |-> FALSE, aiInsight |-> 0, description |-> ""]

\* File.findByIdAndUpdate(id, {processingStatus: status}): no document, no change
SetStatus(fs, id, status) ==
    IF fs[id].exists THEN [fs EXCEPT ![id].processingStatus = status] ELSE fs

\* File.findByIdAndUpdate(id, {aiInsight, isProcessed: true, processingStatus: 'completed'})
LinkInsight(fs, id, insightId) ==
    IF fs[id].exists
    THEN [fs EXCEPT ![id].aiInsight = insightId, ![id].isProcessed = TRUE,
                    ![id].processingStatus = "completed"]
    ELSE fs

\* The _id of a new AiInsight is unique: here it is named after the invocation that
\* creates the document
JobInsightId(f) == f
ReqInsightId(r) == Cardinality(FileIds) + r
InsightIds == {JobInsightId(f) : f \in FileIds} \cup {ReqInsightId(r) : r \in ReqIds}

NoInsight ==
    [ exists |-> FALSE, file |-> 0, user |-> "u1", rawText |-> Undefined,
      summary |-> [english |-> Undefined, urdu |-> Undefined],
      keyFindings |-> Undefined, recommendations |-> Undefined,
      doctorQuestions |-> Undefined, riskFactors |-> Undefined,
      followUpRequired |-> Undefined, followUpTimeframe |-> Undefined,
      confidence |-> Undefined, processingTime |-> Undefined,
      model |-> "", isReviewed |-> FALSE, reviewedBy |-> "", reviewedAt |-> 0,
      reviewNotes |-> Undefined, updatedAt |-> 0 ]

\* a store operation may reject; the model bounds how many do
CanFault == faults < MaxFaults

NoResult ==
    [success |-> FALSE, data |-> Undefined, processingTime |-> 0,
     fallback |-> FALSE, threw |-> FALSE, modelCalls |-> 0]

NoData == [isBuffer |-> FALSE]

\* pc, the parameters (fileType, user), the locals of the try block (fileData, result),
\* and what has happened to the invocation: findById returned the file, the download
\* rejected, the model call threw, a store operation rejected, how it ended
IdleJob ==
    [pc |-> "idle", fileType |-> "pdf", user |-> "u1", fileData |-> NoData,
     result |-> NoResult, loaded |-> FALSE, dlFailed |-> FALSE, modelThrew |-> FALSE,
     faulted |-> FALSE, ended |-> "none"]

\* pc, the request (user, fileId), the response status (0: none), and whether the
\* file named was the user's and completed when the request arrived
IdleReq ==
    [pc |-> "idle", user |-> "u1", fileId |-> 1, resp |-> 0, completedAtArrival |-> FALSE]

\* the DELETE request: pc, the requesting user, the file id, file.aiInsight as read
\* by findOne (0: none), and the response status (0: none)
IdleDel == [pc |-> "idle", user |-> "u1", fileId |-> 1, aiInsight |-> 0, resp |-> 0]

\* no limiter has been made
NoLimiter == [pc |-> "off"]

\* no response has been sent
NoResponse == [resp |-> 0, processingStatus |-> "", isProcessed |-> FALSE]

Init ==
    /\ files = [f \in FileIds |-> NoFile]
    /\ insights = [i \in InsightIds |-> NoInsight]
    /\ job = [f \in FileIds |-> IdleJob]
    /\ req = [r \in ReqIds |-> IdleReq]
    /\ faults = 0
    /\ rawText = <<>>
    /\ parsed = Undefined
    /\ reparsed = Undefined
    /\ ppc = "off"
    /\ del = IdleDel
    /\ upl = [f \in FileIds |-> NoResponse]
    /\ mime = NoMime
    /\ lim = NoLimiter
    /\ snapshot = NoSnapshot
    /\ alerts = <<>>
    /\ realerts = <<>>
    /\ vpc = "off"

----------------------------------------------------------------------------
(* POST /upload (part_000 lines 462-530) *)

Owners == {"u1"}

\* Mutation of Created: the response is built from the document as the started job
\* leaves it
CreatedAfterJob(file) ==
    [resp |-> 201, processingStatus |-> "processing", isProcessed |-> file.isProcessed]

\* res.status(201).json(...) (lines 503-524): the analysis fields are read from the
\* document the handler holds
Created(file) ==
    [resp |-> 201, processingStatus |-> file.processingStatus, isProcessed |-> file.isProcessed]

\* the response of the catch block (lines 526-533)
UploadFailed == [resp |-> 500, processingStatus |-> "", isProcessed |-> FALSE]

\* The handler: file.save(), then processAIInsight is called without await and the
\* 201 response is sent before the handler yields, so the job has started and none of
\* its store operations has been applied.  File ids are handed out in order.  When
\* file.save() rejects, no document and no job exist and the response is 500.
Upload(f, u, t) ==
    /\ job[f].pc = "idle"
    /\ \A g \in FileIds : g < f => job[g].pc # "idle"
    /\ \/ /\ files' = [files EXCEPT ![f] = NewFile(u, t)]
          /\ job' = [job EXCEPT ![f].pc = "setProcessing", ![f].fileType = t, ![f].user = u]
          /\ upl' = [upl EXCEPT ![f] = Created(NewFile(u, t))]
          /\ UNCHANGED faults
       \/ /\ CanFault
          /\ faults' = faults + 1
          /\ upl' = [upl EXCEPT ![f] = UploadFailed]
          /\ UNCHANGED <<files, job>>
    /\ UNCHANGED <<insights, req, del, parseVars, vitalVars, mime, lim>>

----------------------------------------------------------------------------
(* processAIInsight (part_000 lines 822-967), one action per await *)

\* the invocation has returned: its parameters and locals are gone
JobEnded(j, how) ==
    [IdleJob EXCEPT !.pc = "done", !.ended = how, !.loaded = j.loaded, !.dlFailed = j.dlFailed,
                    !.modelThrew = j.modelThrew, !.faulted = j.faulted]

\* control passes to the catch block, which cannot see the locals of the try block
JobCaught(j) == [j EXCEPT !.pc = "catch", !.fileData = NoData, !.result = NoResult]

\* a store operation of the try block rejects
JobThrow(f) ==
    /\ CanFault
    /\ faults' = faults + 1
    /\ job' = [job EXCEPT ![f] = JobCaught([job[f] EXCEPT !.faulted = TRUE])]
    /\ UNCHANGED <<files, insights>>

\* lines 825-827
JobSetProcessing(f) ==
    /\ job[f].pc = "setProcessing"
    /\ \/ /\ files' = SetStatus(files, f, "processing")
          /\ job' = [job EXCEPT ![f].pc = "load"]
          /\ UNCHANGED <<insights, faults>>
       \/ JobThrow(f)
    /\ UNCHANGED <<req, del, upl, parseVars, vitalVars, mime, lim>>

\* Mutation of JobLoad: the download is started for every file type
JobLoadFetchesAll(f) ==
    /\ job[f].pc = "load"
    /\ \/ /\ files[f].exists
          /\ job' = [job EXCEPT ![f].pc = "fetch", ![f].loaded = TRUE, ![f].fileData = NoData]
          /\ UNCHANGED <<files, insights, faults>>
       \/ /\ ~files[f].exists
          /\ job' = [job EXCEPT ![f] = JobCaught(job[f])]
          /\ UNCHANGED <<files, insights, faults>>
       \/ JobThrow(f)
    /\ UNCHANGED <<req, del, upl, parseVars, vitalVars, mime, lim>>

\* lines 833-836 and the branch of lines 840, 900-911
JobLoad(f) ==
    /\ job[f].pc = "load"
    /\ \/ /\ files[f].exists
          /\ job' = [job EXCEPT ![f].pc = IF files[f].fileType = "image" THEN "fetch" ELSE "invoke",
                                ![f].loaded = TRUE,
                                ![f].fileData = NoData]
          /\ UNCHANGED <<files, insights, faults>>
       \/ /\ ~files[f].exists
          /\ job' = [job EXCEPT ![f] = JobCaught(job[f])]
          /\ UNCHANGED <<files, insights, faults>>
       \/ JobThrow(f)
    /\ UNCHANGED <<req, del, upl, parseVars, vitalVars, mime, lim>>

\* lines 841-899: the download resolves with a Buffer, or rejects (timeout, status,
\* transport error) and the metadata text is used instead
JobFetch(f) ==
    /\ job[f].pc = "fetch"
    /\ \E ok \in BOOLEAN :
          job' = [job EXCEPT ![f].pc = "invoke",
                             ![f].fileData = [isBuffer |-> ok],
                             ![f].dlFailed = ~ok]
    /\ UNCHANGED <<files, insights, faults, req, del, upl, parseVars, vitalVars, mime, lim>>

\* lines 917-926
JobInvoke(f) ==
    /\ job[f].pc = "invoke"
    /\ \E out \in ModelOutcomes, elapsed \in Elapsed :
          LET geminiResult == analyzeMedicalReport(job[f].fileData, job[f].fileType, out, elapsed)
              called == [job[f] EXCEPT !.modelThrew = out.throws /\ geminiResult.modelCalls = 1]
          IN job' = [job EXCEPT ![f] = IF geminiResult.threw
                                       THEN JobCaught(called)
                                       ELSE [called EXCEPT !.pc = "save", !.result = geminiResult]]
    /\ UNCHANGED <<files, insights, faults, req, del, upl, parseVars, vitalVars, mime, lim>>

\* lines 929-948: build the document; save() validates it and inserts it.  fileData and
\* geminiResult are not read after this step
JobSave(f) ==
    /\ job[f].pc = "save"
    /\ LET aiInsight == BuildInsight(f, job[f].user, job[f].fileData, job[f].result) IN
       \/ /\ Validate(aiInsight)
          /\ insights' = [insights EXCEPT ![JobInsightId(f)] = aiInsight]
          /\ job' = [job EXCEPT ![f].pc = "link", ![f].fileData = NoData, ![f].result = NoResult]
          /\ UNCHANGED <<files, faults>>
       \/ /\ ~Validate(aiInsight)
          /\ job' = [job EXCEPT ![f] = JobCaught(job[f])]
          /\ UNCHANGED <<files, insights, faults>>
       \/ /\ Validate(aiInsight)
          /\ JobThrow(f)
    /\ UNCHANGED <<req, del, upl, parseVars, vitalVars, mime, lim>>

\* lines 951-957
JobLink(f) ==
    /\ job[f].pc = "link"
    /\ \/ /\ files' = LinkInsight(files, f, JobInsightId(f))
          /\ job' = [job EXCEPT ![f] = JobEnded(job[f], "completed")]
          /\ UNCHANGED <<insights, faults>>
       \/ JobThrow(f)
    /\ UNCHANGED <<req, del, upl, parseVars, vitalVars, mime, lim>>

\* lines 959-966: the update of the catch block is awaited inside the catch block, so
\* when it rejects nothing handles it and the function ends there
JobCatch(f) ==
    /\ job[f].pc = "catch"
    /\ \/ /\ files' = SetStatus(files, f, "failed")
          /\ job' = [job EXCEPT ![f] = JobEnded(job[f], "failed")]
          /\ UNCHANGED <<insights, faults>>
       \/ /\ CanFault
          /\ faults' = faults + 1
          /\ job' = [job EXCEPT ![f] = JobEnded([job[f] EXCEPT !.faulted = TRUE], "crashed")]
          /\ UNCHANGED <<files, insights>>
    /\ UNCHANGED <<req, del, upl, parseVars, vitalVars, mime, lim>>

----------------------------------------------------------------------------
(* POST /analyze-file/:fileId (vitals.js lines 609-752), one action per await *)

\* a request arrives, authenticated as u, naming file id f
ReqArrive(r, u, f) ==
    /\ req[r].pc = "idle"
    /\ \A q \in ReqIds : q < r => req[q].pc # "idle"
    /\ req' = [req EXCEPT ![r].pc = "find", ![r].user = u, ![r].fileId = f,
                          ![r].completedAtArrival =
                              /\ files[f].exists
                              /\ files[f].user = u
                              /\ files[f].processingStatus = "completed"]
    /\ UNCHANGED <<files, insights, job, faults, del, upl, parseVars, vitalVars, mime, lim>>

\* the handler has responded (status 0: it ended without a response)
ReqEnded(q, status) ==
    [IdleReq EXCEPT !.pc = "done", !.resp = status, !.completedAtArrival = q.completedAtArrival]

\* a store operation of the try block rejects: control passes to the catch block
ReqThrow(r) ==
    /\ CanFault
    /\ faults' = faults + 1
    /\ req' = [req EXCEPT ![r].pc = "catch"]
    /\ UNCHANGED <<files, insights>>

\* lines 611-629
ReqFind(r) ==
    /\ req[r].pc = "find"
    /\ LET file == files[req[r].fileId] IN
       \/ /\ ~(file.exists /\ file.user = req[r].user)
          /\ req' = [req EXCEPT ![r] = ReqEnded(req[r], 404)]
          /\ UNCHANGED <<files, insights, faults>>
       \/ /\ file.exists /\ file.user = req[r].user
          /\ file.isProcessed /\ file.aiInsight # 0
          /\ req' = [req EXCEPT ![r] = ReqEnded(req[r], 400)]
          /\ UNCHANGED <<files, insights, faults>>
       \/ /\ file.exists /\ file.user = req[r].user
          /\ ~(file.isProcessed /\ file.aiInsight # 0)
          /\ req' = [req EXCEPT ![r].pc = "setProcessing"]
          /\ UNCHANGED <<files, insights, faults>>
       \/ ReqThrow(r)
    /\ UNCHANGED <<job, del, upl, parseVars, vitalVars, mime, lim>>

\* lines 632-634
ReqSetProcessing(r) ==
    /\ req[r].pc = "setProcessing"
    /\ \/ /\ files' = SetStatus(files, req[r].fileId, "processing")
          /\ req' = [req EXCEPT ![r].pc = "save"]
          /\ UNCHANGED <<insights, faults>>
       \/ ReqThrow(r)
    /\ UNCHANGED <<job, del, upl, parseVars, vitalVars, mime, lim>>

\* lines 638-721: the three second delay, then the sample document is saved
ReqSave(r) ==
    /\ req[r].pc = "save"
    /\ \E elapsed \in Elapsed :
       LET aiInsight == SampleInsight(req[r].fileId, req[r].user, elapsed) IN
       \/ /\ Validate(aiInsight)
          /\ insights' = [insights EXCEPT ![ReqInsightId(r)] = aiInsight]
          /\ req' = [req EXCEPT ![r].pc = "link"]
          /\ UNCHANGED <<files, faults>>
       \/ /\ ~Validate(aiInsight)
          /\ req' = [req EXCEPT ![r].pc = "catch"]
          /\ UNCHANGED <<files, insights, faults>>
       \/ ReqThrow(r)
    /\ UNCHANGED <<job, del, upl, parseVars, vitalVars, mime, lim>>

\* lines 724-736
ReqLink(r) ==
    /\ req[r].pc = "link"
    /\ \/ /\ files' = LinkInsight(files, req[r].fileId, ReqInsightId(r))
          /\ req' = [req EXCEPT ![r] = ReqEnded(req[r], 200)]
          /\ UNCHANGED <<insights, faults>>
       \/ ReqThrow(r)
    /\ UNCHANGED <<job, del, upl, parseVars, vitalVars, mime, lim>>

\* lines 738-751: the update is by req.params.fileId alone; when it rejects, nothing
\* handles the rejection and no response is sent
ReqCatch(r) ==
    /\ req[r].pc = "catch"
    /\ \/ /\ files' = SetStatus(files, req[r].fileId, "failed")
          /\ req' = [req EXCEPT ![r] = ReqEnded(req[r], 500)]
          /\ UNCHANGED <<insights, faults>>
       \/ /\ CanFault
          /\ faults' = faults + 1
          /\ req' = [req EXCEPT ![r] = ReqEnded(req[r], 0)]
          /\ UNCHANGED <<files, insights>>
    /\ UNCHANGED <<job, del, upl, parseVars, vitalVars, mime, lim>>

----------------------------------------------------------------------------
(* DELETE /:id (part_000 lines 731-771), one action per store operation *)

\* the handler has responded; its locals are gone
DelEnded(d, status) == [IdleDel EXCEPT !.pc = "done", !.resp = status]

\* a store operation rejects: the catch block answers 500 and changes nothing
DelThrow ==
    /\ CanFault
    /\ faults' = faults + 1
    /\ del' = DelEnded(del, 500)
    /\ UNCHANGED <<files, insights>>

\* lines 733-743: File.findOne({_id, user}); file.aiInsight is read here
DelFind(u, f) ==
    /\ del.pc = "idle"
    /\ \/ /\ ~(files[f].exists /\ files[f].user = u)
          /\ del' = DelEnded(del, 404)
          /\ UNCHANGED <<files, insights, faults>>
       \/ /\ files[f].exists /\ files[f].user = u
          /\ del' = [pc |-> "insight", user |-> u, fileId |-> f,
                     aiInsight |-> files[f].aiInsight, resp |-> 0]
          /\ UNCHANGED <<files, insights, faults>>
       \/ DelThrow
    /\ UNCHANGED <<job, req, upl, parseVars, vitalVars, mime, lim>>

\* lines 746-754: deleteFromCloudinary (which never throws), then the AiInsight that
\* file.aiInsight named when the file was read is deleted, if it named one
DelInsight ==
    /\ del.pc = "insight"
    /\ \/ /\ del.aiInsight = 0
          /\ del' = [del EXCEPT !.pc = "file"]
          /\ UNCHANGED <<files, insights, faults>>
       \/ /\ del.aiInsight # 0
          /\ insights' = [insights EXCEPT ![del.aiInsight] = NoInsight]
          /\ del' = [del EXCEPT !.pc = "file", !.aiInsight = 0]
          /\ UNCHANGED <<files, faults>>
       \/ /\ del.aiInsight # 0
          /\ DelThrow
    /\ UNCHANGED <<job, req, upl, parseVars, vitalVars, mime, lim>>

\* lines 757-762: File.findByIdAndDelete and the 200 response
DelFile ==
    /\ del.pc = "file"
    /\ \/ /\ files' = [files EXCEPT ![del.fileId] = NoFile]
          /\ del' = [DelEnded(del, 200) EXCEPT !.fileId = del.fileId]
          /\ UNCHANGED <<insights, faults>>
       \/ DelThrow
    /\ UNCHANGED <<job, req, upl, parseVars, vitalVars, mime, lim>>

----------------------------------------------------------------------------
(* PUT /insights/:id/review (vitals.js lines 832-883) *)

Null == Node("null", "", 0, <<>>)

\* req.body.reviewNotes: absent, or a string of at most 1000 characters (a longer one
\* is answered 400 before the store is touched)
ReviewNotes == {Undefined, S("seen")}

\* new Date(), as an instant after the save of the document
ReviewDates == {9}

\* Mutation of Reviewed: the update replaces the document by one with the schema defaults
ReviewedOverwrites(doc, u, at, notes) ==
    [doc EXCEPT !.isReviewed = TRUE, !.reviewedBy = u, !.reviewedAt = at,
                !.reviewNotes = notes, !.updatedAt = at,
                !.confidence = Undefined, !.model = "gemini-2.0-flash"]

\* the update document of findOneAndUpdate applied to doc; the schema's timestamps
\* option (AiInsight.js lines 105-107) makes every update set updatedAt as well
Reviewed(doc, u, at, notes) ==
    [doc EXCEPT !.isReviewed = TRUE, !.reviewedBy = u, !.reviewedAt = at,
                !.reviewNotes = notes, !.updatedAt = at]

\* AiInsight.findOneAndUpdate({_id, user}, {...}): one store operation.  A reviewNotes
\* key that is undefined is either dropped from the update or written as null,
\* depending on the version of the store library.  When no document matches, the
\* answer is 404, when the operation rejects, the answer is 500, and in both cases no
\* document changes.
Review(u, i, notes) ==
    /\ insights[i].exists /\ insights[i].user = u
    /\ \E at \in ReviewDates, written \in IF notes = Undefined
                                          THEN {insights[i].reviewNotes, Null}
                                          ELSE {notes} :
          insights' = [insights EXCEPT ![i] = Reviewed(insights[i], u, at, written)]
    /\ UNCHANGED <<files, job, req, faults, del, upl, parseVars, vitalVars, mime, lim>>

----------------------------------------------------------------------------
(* PUT /:id (part_000 lines 649-727) *)

\* a value for each key a request body may carry: a field the handler lets through,
\* and the three analysis fields
BodyValues ==
    [description |-> "edited", processingStatus |-> "completed", isProcessed |-> TRUE,
     aiInsight |-> ReqInsightId(MaxReq)]

\* req.body: no key, the description alone, the analysis fields alone, or all of them
BodyKeys ==
    { {}, {"description"}, {"processingStatus", "isProcessed", "aiInsight"},
      DOMAIN BodyValues }

Bodies == {[k \in keys |-> BodyValues[k]] : keys \in BodyKeys}

AllowedUpdates == {"reportType", "testDate", "labName", "doctorName", "description", "tags"}

\* Mutation of Updates: every key of the body is copied
UpdatesUnfiltered(body) == body

\* lines 685-698: the keys of the body that are in allowedUpdates
Updates(body) == [k \in DOMAIN body \cap AllowedUpdates |-> body[k]]

\* the document with the fields of the update replaced
Updated(file, updates) ==
    [k \in DOMAIN file |-> IF k \in DOMAIN updates THEN updates[k] ELSE file[k]]

\* lines 700-704: File.findOneAndUpdate({_id, user}, updates): one store operation.
\* When no document matches, the answer is 404, when the operation rejects, the answer
\* is 500, and in both cases no document changes.
UpdateFile(u, f, body) ==
    /\ files[f].exists /\ files[f].user = u
    /\ files' = [files EXCEPT ![f] = Updated(files[f], Updates(body))]
    /\ UNCHANGED <<insights, job, req, faults, del, upl, parseVars, vitalVars, mime, lim>>

----------------------------------------------------------------------------

Next ==
    \/ \E f \in FileIds, u \in Owners, t \in FileTypes : Upload(f, u, t)
    \/ \E f \in FileIds : JobSetProcessing(f)
    \/ \E f \in FileIds : JobLoad(f)
    \/ \E f \in FileIds : JobFetch(f)
    \/ \E f \in FileIds : JobInvoke(f)
    \/ \E f \in FileIds : JobSave(f)
    \/ \E f \in FileIds : JobLink(f)
    \/ \E f \in FileIds : JobCatch(f)
    \/ \E r \in ReqIds, u \in Users, f \in FileIds : ReqArrive(r, u, f)
    \/ \E r \in ReqIds : ReqFind(r)
    \/ \E r \in ReqIds : ReqSetProcessing(r)
    \/ \E r \in ReqIds : ReqSave(r)
    \/ \E r \in ReqIds : ReqLink(r)
    \/ \E r \in ReqIds : ReqCatch(r)
    \/ \E u \in Users, f \in FileIds : DelFind(u, f)
    \/ DelInsight
    \/ DelFile

Spec == Init /\ [][Next]_vars

\* The pipeline together with the requests that edit stored documents
CrudNext ==
    \/ Next
    \/ \E u \in Users, i \in InsightIds, notes \in ReviewNotes : Review(u, i, notes)
    \/ \E u \in Users, f \in FileIds, body \in Bodies : UpdateFile(u, f, body)

CrudSpec == Init /\ [][CrudNext]_vars

----------------------------------------------------------------------------
(* parseGeminiResponse on its own: every text up to MaxTextLen lexemes over a small
   alphabet, and the texts of the pipeline *)

Alphabet == {W, P("{"), P("}"), S("confidence"), P(":"), N(150)}

ShortTexts == UNION {[1..n -> Alphabet] : n \in 0..MaxTextLen}

\* a well-formed payload with prose on both sides
EmbeddedTexts == {<<W>> \o Stringify(Payload(<<>>, "1-month", 90)) \o <<W, W>>}

RawTexts == ShortTexts \cup ModelTexts \cup EmbeddedTexts

ParseInit ==
    /\ files = [f \in FileIds |-> NoFile]
    /\ insights = [i \in InsightIds |-> NoInsight]
    /\ job = [f \in FileIds |-> IdleJob]
    /\ req = [r \in ReqIds |-> IdleReq]
    /\ faults = 0
    /\ rawText \in RawTexts
    /\ parsed = Undefined
    /\ reparsed = Undefined
    /\ ppc = "start"
    /\ del = IdleDel
    /\ upl = [f \in FileIds |-> NoResponse]
    /\ mime = NoMime
    /\ lim = NoLimiter
    /\ snapshot = NoSnapshot
    /\ alerts = <<>>
    /\ realerts = <<>>
    /\ vpc = "off"

ParseCall ==
    /\ ppc = "start"
    /\ parsed' = parseGeminiResponse(rawText)
    /\ ppc' = "done"
    /\ UNCHANGED <<rawText, reparsed, pipeVars, vitalVars, mime, lim>>

\* the record returned is serialized and normalized again
ParseAgain ==
    /\ ppc = "done"
    /\ reparsed' = parseGeminiResponse(Stringify(parsed))
    /\ ppc' = "again"
    /\ UNCHANGED <<rawText, parsed, pipeVars, vitalVars, mime, lim>>

ParseNext == ParseCall \/ ParseAgain

ParseSpec == ParseInit /\ [][ParseNext]_vars

----------------------------------------------------------------------------
(* checkNormalRanges on its own: every snapshot over values on and next to the
   thresholds, called twice *)

VitalsInit ==
    /\ files = [f \in FileIds |-> NoFile]
    /\ insights = [i \in InsightIds |-> NoInsight]
    /\ job = [f \in FileIds |-> IdleJob]
    /\ req = [r \in ReqIds |-> IdleReq]
    /\ faults = 0
    /\ del = IdleDel
    /\ upl = [f \in FileIds |-> NoResponse]
    /\ mime = NoMime
    /\ lim = NoLimiter
    /\ rawText = <<>>
    /\ parsed = Undefined
    /\ reparsed = Undefined
    /\ ppc = "off"
    /\ snapshot \in Snapshots
    /\ alerts = <<>>
    /\ realerts = <<>>
    /\ vpc = "start"

VitalsCall ==
    /\ vpc = "start"
    /\ alerts' = checkNormalRanges(snapshot)
    /\ vpc' = "once"
    /\ UNCHANGED <<snapshot, realerts, pipeVars, parseVars, mime, lim>>

VitalsCallAgain ==
    /\ vpc = "once"
    /\ realerts' = checkNormalRanges(snapshot)
    /\ vpc' = "twice"
    /\ UNCHANGED <<snapshot, alerts, pipeVars, parseVars, mime, lim>>

VitalsNext == VitalsCall \/ VitalsCallAgain

VitalsSpec == VitalsInit /\ [][VitalsNext]_vars

----------------------------------------------------------------------------
(* The MIME detection on its own: every buffer of Buffers *)

MimeInit ==
    /\ files = [f \in FileIds |-> NoFile]
    /\ insights = [i \in InsightIds |-> NoInsight]
    /\ job = [f \in FileIds |-> IdleJob]
    /\ req = [r \in ReqIds |-> IdleReq]
    /\ faults = 0
    /\ del = IdleDel
    /\ upl = [f \in FileIds |-> NoResponse]
    /\ rawText = <<>>
    /\ parsed = Undefined
    /\ reparsed = Undefined
    /\ ppc = "off"
    /\ snapshot = NoSnapshot
    /\ alerts = <<>>
    /\ realerts = <<>>
    /\ vpc = "off"
    /\ mime \in {[pc |-> "start", buffer |-> b, type |-> ""] : b \in Buffers}
    /\ lim = NoLimiter

MimeCall ==
    /\ mime.pc = "start"
    /\ mime' = [mime EXCEPT !.pc = "done", !.type = DetectMime(mime.buffer)]
    /\ UNCHANGED <<pipeVars, parseVars, vitalVars, lim>>

MimeNext == MimeCall

MimeSpec == MimeInit /\ [][MimeNext]_vars

----------------------------------------------------------------------------
(* One limiter on its own.  attempts is the Map of the closure; now is Date.now();
   passed lists, for each user, the instants at which next() was called; last is the
   outcome of the latest request. *)

NewLimiter(windowMs, max) ==
    [pc |-> "on", windowMs |-> windowMs, max |-> max,
     attempts |-> [u \in Users |-> <<>>],
     now |-> 0,
     passed |-> [u \in Users |-> <<>>],
     last |-> [user |-> "u1", passed |-> FALSE, any |-> FALSE]]

LimitInit ==
    /\ files = [f \in FileIds |-> NoFile]
    /\ insights = [i \in InsightIds |-> NoInsight]
    /\ job = [f \in FileIds |-> IdleJob]
    /\ req = [r \in ReqIds |-> IdleReq]
    /\ faults = 0
    /\ del = IdleDel
    /\ upl = [f \in FileIds |-> NoResponse]
    /\ rawText = <<>>
    /\ parsed = Undefined
    /\ reparsed = Undefined
    /\ ppc = "off"
    /\ snapshot = NoSnapshot
    /\ alerts = <<>>
    /\ realerts = <<>>
    /\ vpc = "off"
    /\ mime = NoMime
    /\ lim \in {NewLimiter(w, m) : w \in Windows, m \in Maxes}

\* lines 99-118: the middleware, for a request of user u
LimitRequest(u) ==
    /\ lim.pc = "on"
    /\ LET userAttempts == lim.attempts[u]
           recentAttempts == Recent(userAttempts, lim.now, lim.windowMs)
       IN IF Limited(userAttempts, lim.now, lim.windowMs, lim.max)
          THEN lim' = [lim EXCEPT !.last = [user |-> u, passed |-> FALSE, any |-> TRUE]]
          ELSE lim' = [lim EXCEPT !.attempts[u] = Append(recentAttempts, lim.now),
                                  !.passed[u] = Append(@, lim.now),
                                  !.last = [user |-> u, passed |-> TRUE, any |-> TRUE]]
    /\ UNCHANGED <<pipeVars, parseVars, vitalVars, mime>>

\* the clock advances
LimitTick ==
    /\ lim.pc = "on"
    /\ lim.now < MaxTime
    /\ lim' = [lim EXCEPT !.now = @ + 1]
    /\ UNCHANGED <<pipeVars, parseVars, vitalVars, mime>>

LimitNext == (\E u \in Users : LimitRequest(u)) \/ LimitTick

LimitSpec == LimitInit /\ [][LimitNext]_vars

----------------------------------------------------------------------------
(* Properties *)

Terminal == {"completed", "failed"}

ForwardSteps ==
    {<<"pending", "processing">>, <<"processing", "completed">>, <<"processing", "failed">>}

\* C1: every change of a file's processingStatus is pending->processing,
\* processing->completed or processing->failed, over any interleaving of background
\* jobs and manual analyze-file requests.
C1_StatusOnlyAdvances ==
    [][\A f \in FileIds :
          (files[f].exists /\ files'[f].exists
              /\ files'[f].processingStatus # files[f].processingStatus)
          => <<files[f].processingStatus, files'[f].processingStatus>> \in ForwardSteps]_vars

\* C2: in every reachable state, isProcessed is true iff processingStatus is completed
\* and the aiInsight reference is non-null.
C2_IsProcessedIffCompleted ==
    \A f \in FileIds :
        files[f].exists =>
            (files[f].isProcessed <=>
                (files[f].processingStatus = "completed" /\ files[f].aiInsight # 0))

\* C3: when a background job finishes by writing its terminal status, either its
\* insight exists, the file points to it and the status is completed, or the status is
\* failed and no insight created by the job remains in the store.
C3_InsightAtomic ==
    [][\A f \in FileIds :
          (job[f].pc # "done" /\ job'[f].pc = "done"
              /\ job'[f].ended \in Terminal /\ files'[f].exists)
          => \/ /\ insights'[JobInsightId(f)].exists
                /\ files'[f].aiInsight = JobInsightId(f)
                /\ files'[f].processingStatus = "completed"
             \/ /\ files'[f].processingStatus = "failed"
                /\ ~insights'[JobInsightId(f)].exists]_vars

\* C4: a started job brings its file to a terminal status whichever of its steps
\* fails: once processAIInsight has returned (and no manual request was ever made),
\* the file's status is completed or failed.
C4_JobReachesTerminal ==
    \A f \in FileIds :
        (job[f].pc = "done" /\ files[f].exists /\ \A r \in ReqIds : req[r].pc = "idle")
        => files[f].processingStatus \in Terminal

\* The runs that have set the status to processing and not yet written a terminal status
ActiveJob(f) == job[f].pc \in {"load", "fetch", "invoke", "save", "link"}
ActiveReq(r, f) == req[r].fileId = f /\ req[r].pc \in {"save", "link"}
ActiveRuns(f) ==
    (IF ActiveJob(f) THEN 1 ELSE 0) + Cardinality({r \in ReqIds : ActiveReq(r, f)})

\* C5: for every file id, at most one analysis run is between its 'set status
\* processing' and its terminal status update at any moment.
C5_OneActiveAnalysis == \A f \in FileIds : ActiveRuns(f) <= 1

\* C6: a manual analyze-file request for a file that is completed when the request
\* arrives changes neither the files nor the insights at any of its steps, its error
\* handler included, and is answered with status 400.
C6_CompletedRejectedUnchanged ==
    [][\A r \in ReqIds :
          (req[r].completedAtArrival /\ req'[r] # req[r])
          => /\ files' = files
             /\ insights' = insights
             /\ (req'[r].pc = "done" => req'[r].resp = 400)]_vars

NonEmptyString(v) == v.k = "str" /\ Truthy(v)
IsList(v) == v.k = "arr"

\* The payload schema of the claims C7 and C10
SchemaValid(d) ==
    /\ d.k = "obj"
    /\ NonEmptyString(Get(Get(d, "summary"), "english"))
    /\ NonEmptyString(Get(Get(d, "summary"), "urdu"))
    /\ Get(d, "confidence").k = "num"
    /\ Get(d, "confidence").n >= 0 /\ Get(d, "confidence").n <= 100
    /\ IsList(Get(d, "keyFindings"))
    /\ IsList(Get(d, "riskFactors"))
    /\ IsList(Get(Get(d, "recommendations"), "english"))
    /\ IsList(Get(Get(d, "recommendations"), "urdu"))
    /\ IsList(Get(Get(d, "doctorQuestions"), "english"))
    /\ IsList(Get(Get(d, "doctorQuestions"), "urdu"))
    /\ \A i \in 1..Len(Get(d, "keyFindings").c) :
          Get(Get(d, "keyFindings").c[i], "status").s \in FindingStatuses
    /\ \A i \in 1..Len(Get(d, "riskFactors").c) :
          Get(Get(d, "riskFactors").c[i], "level").s \in RiskLevels
    /\ Get(d, "followUpTimeframe").k # "undef"
          => Get(d, "followUpTimeframe").s \in Timeframes

\* C7: for every input and every behaviour of the external model, analyzeMedicalReport
\* returns (nothing is thrown) and the payload it returns is schema-valid.
C7_AnalyzeReturnsValidPayload ==
    \A f \in FileIds :
        job[f].pc = "save" => (~job[f].result.threw /\ SchemaValid(job[f].result.data))

\* The job met a recoverable external error and none of its store operations rejected
Recovered(j) == (j.dlFailed \/ j.modelThrew) /\ ~j.faulted

\* The document built from the fallback payload
FallbackInsight(d) ==
    /\ d.exists
    /\ d.summary = [english |-> Get(Get(FallbackResponse, "summary"), "english"),
                    urdu |-> Get(Get(FallbackResponse, "summary"), "urdu")]
    /\ d.keyFindings = Arr(<<>>)
    /\ d.confidence = N(30)

\* C8: a background job whose image download fails, or whose model call throws, and
\* whose store operations all succeed, never enters its error handler: the Model
\* Invoker's result is the fallback payload with the fallback marker, the insight saved
\* carries the fallback content, and the job's last step links that insight to the
\* file and sets the status completed.
C8_RecoverableErrorsComplete ==
    /\ [](\A f \in FileIds :
            Recovered(job[f]) =>
                /\ job[f].pc # "catch"
                /\ job[f].ended \in {"none", "completed"}
                /\ job[f].pc = "save" =>
                      (job[f].result.fallback /\ job[f].result.data = FallbackResponse)
                /\ job[f].pc = "link" => FallbackInsight(insights[JobInsightId(f)]))
    /\ [][\A f \in FileIds :
            (Recovered(job'[f]) /\ job[f].pc # "done" /\ job'[f].pc = "done" /\ files[f].exists)
            => /\ files'[f].processingStatus = "completed"
               /\ files'[f].isProcessed
               /\ files'[f].aiInsight = JobInsightId(f)
               /\ FallbackInsight(insights'[JobInsightId(f)])]_vars

\* C8 witness: a job whose download failed has ended, and its file is completed and
\* linked to the fallback insight.
C8_Witness ==
    \E f \in FileIds :
        /\ job[f].ended = "completed" /\ job[f].dlFailed /\ ~job[f].faulted
        /\ files[f].processingStatus = "completed"
        /\ files[f].aiInsight = JobInsightId(f)
        /\ FallbackInsight(insights[JobInsightId(f)])

\* C9: whatever the external model returns or throws, a job that loaded its file and
\* whose store operations all succeeded does not end in failed.
C9_ModelCannotCauseFailed ==
    \A f \in FileIds :
        (job[f].loaded /\ ~job[f].faulted) => (job[f].pc # "catch" /\ job[f].ended # "failed")

\* C10: for every raw text parseGeminiResponse returns a record with confidence in
\* [0,100], non-empty summary.english and summary.urdu, and enum fields in their sets.
C10_ParseOutputValid == ppc = "done" => SchemaValid(parsed)

----------------------------------------------------------------------------
(* Properties of parseGeminiResponse, under ParseSpec *)

\* No structured object can be obtained from the text: no {...} block, or JSON.parse
\* rejects the block
Unparseable(text) ==
    LET jsonMatch == JsonMatch(text) IN
    ~jsonMatch.found \/ JsonParse(jsonMatch.span).throws

\* C11: for a text from which no object can be obtained, the record returned has the
\* summary built from the truncated text, empty keyFindings and riskFactors, and
\* confidence 60 when the text is non-empty, 30 when it is empty.
C11_DegradedConfidence ==
    (ppc = "done" /\ Unparseable(rawText)) =>
        /\ Get(Get(parsed, "summary"), "english") = Substring(rawText)
        /\ Get(parsed, "keyFindings") = Arr(<<>>)
        /\ Get(parsed, "riskFactors") = Arr(<<>>)
        /\ Get(parsed, "confidence") = IF rawText # <<>> THEN N(60) ELSE N(30)

\* The spans of the text that are valid JSON objects, and those inside no other
ObjectSpans(text) ==
    {sp \in (1..Len(text)) \X (1..Len(text)) :
        /\ sp[1] < sp[2]
        /\ text[sp[1]] = P("{") /\ text[sp[2]] = P("}")
        /\ ~JsonParse(SubSeq(text, sp[1], sp[2])).throws}

Outermost(text) ==
    {sp \in ObjectSpans(text) :
        ~\E other \in ObjectSpans(text) :
            other # sp /\ other[1] <= sp[1] /\ sp[2] <= other[2]}

Outside(text, sp) == {text[i] : i \in (1..Len(text)) \ (sp[1]..sp[2])}

Braces == {P("{"), P("}")}

C13_FallbackIdempotent ==
    (ppc = "again" /\ Unparseable(rawText)) => reparsed = parsed

\* C13 witness: both fallback records have been normalized again
C13_Witness ==
    /\ ppc = "again"
    /\ Unparseable(rawText)
    /\ rawText # <<>>
    /\ Get(parsed, "confidence") = N(60)
    /\ Get(Get(parsed, "summary"), "english").c # <<>>
    /\ reparsed = parsed

----------------------------------------------------------------------------
(* Properties of the document processAIInsight builds and saves, under Spec *)

\* The save step of the job of file f, with no store operation rejecting
SaveStep(f) == job[f].pc = "save" /\ job'[f].pc # "save" /\ faults' = faults

Clamp(n) == IF n > 100 THEN 100 ELSE IF n < 0 THEN 0 ELSE n

Absent(a, key) == Get(a, key).k = "undef"

\* C14: the save step persists a record in which every optional field absent from
\* the payload has its default and the confidence is the payload's, clamped to [0,100].
C14_DefaultsAndClamping ==
    [][\A f \in FileIds :
          SaveStep(f) =>
              LET a == job[f].result.data
                  d == insights'[JobInsightId(f)]
              IN /\ d.exists
                 /\ Absent(a, "keyFindings") => d.keyFindings = Arr(<<>>)
                 /\ Absent(a, "riskFactors") => d.riskFactors = Arr(<<>>)
                 /\ Absent(a, "recommendations") => d.recommendations = EmptyLists
                 /\ Absent(a, "doctorQuestions") => d.doctorQuestions = EmptyLists
                 /\ Absent(a, "followUpTimeframe") => d.followUpTimeframe = S("1-month")
                 /\ Get(a, "confidence").k = "num"
                       => d.confidence = N(Clamp(Get(a, "confidence").n))]_vars

\* the list, with every enum field outside its set replaced by the safe default
Coerced(list, key, allowed, safe) ==
    [i \in 1..Len(list) |->
        IF Get(list[i], key).k = "str" /\ Get(list[i], key).s \in allowed
        THEN Get(list[i], key).s ELSE safe]

EnumsOf(list, key) == [i \in 1..Len(list) |-> Get(list[i], key).s]

\* C15: the save step persists the record with every finding status outside its set
\* stored as abnormal and every risk level outside its set stored as medium.
C15_EnumsCoerced ==
    [][\A f \in FileIds :
          (SaveStep(f) /\ Get(job[f].result.data, "keyFindings").k = "arr"
                       /\ Get(job[f].result.data, "riskFactors").k = "arr")
          => LET a == job[f].result.data
                 d == insights'[JobInsightId(f)]
             IN /\ d.exists
                /\ job'[f].pc = "link"
                /\ EnumsOf(d.keyFindings.c, "status")
                      = Coerced(Get(a, "keyFindings").c, "status", FindingStatuses, "abnormal")
                /\ EnumsOf(d.riskFactors.c, "level")
                      = Coerced(Get(a, "riskFactors").c, "level", RiskLevels, "medium")]_vars

----------------------------------------------------------------------------
(* Properties of checkNormalRanges, under VitalsSpec *)

\* a field is present and above / below a threshold
Above(x, n) == x.has /\ x.v > n
Below(x, n) == x.has /\ x.v < n

When(cond, text) == IF cond THEN <<text>> ELSE <<>>

\* The alerts of the five stated thresholds, in the stated order
StatedAlerts(v) ==
    When(Above(v.bloodPressure.systolic, 140) \/ Above(v.bloodPressure.diastolic, 90),
         "High blood pressure detected")
    \o When(Above(v.bloodSugar.fasting, 126), "High fasting blood sugar")
    \o When(Below(v.heartRate.value, 60) \/ Above(v.heartRate.value, 100), "Abnormal heart rate")
    \o When(Below(v.temperature.value, 970) \/ Above(v.temperature.value, 1004),
            "Abnormal body temperature")
    \o When(Below(v.oxygenSaturation.value, 95), "Low oxygen saturation")

\* The stated alerts, with those for low blood pressure and post-meal blood sugar
AllAlerts(v) ==
    When(Above(v.bloodPressure.systolic, 140) \/ Above(v.bloodPressure.diastolic, 90),
         "High blood pressure detected")
    \o When(Below(v.bloodPressure.systolic, 90) \/ Below(v.bloodPressure.diastolic, 60),
            "Low blood pressure detected")
    \o When(Above(v.bloodSugar.fasting, 126), "High fasting blood sugar")
    \o When(Above(v.bloodSugar.postPrandial, 200), "High post-meal blood sugar")
    \o When(Below(v.heartRate.value, 60) \/ Above(v.heartRate.value, 100), "Abnormal heart rate")
    \o When(Below(v.temperature.value, 970) \/ Above(v.temperature.value, 1004),
            "Abnormal body temperature")
    \o When(Below(v.oxygenSaturation.value, 95), "Low oxygen saturation")

Called == vpc \in {"once", "twice"}

\* C16 as stated: the list returned is exactly the alerts of the five stated
\* thresholds, each at most once, in the stated order, all comparisons strict.
C16_ExactlyStatedAlerts == Called => alerts = StatedAlerts(snapshot)

\* C16: the list returned is exactly the alerts of the five stated thresholds and of
\* the two further ones (systolic < 90 or diastolic < 60: 'Low blood pressure detected',
\* after the high blood pressure alert; post-meal sugar > 200: 'High post-meal blood
\* sugar', after the fasting alert), each at most once, in order, all comparisons strict.
C16_ExactlyAllAlerts == Called => alerts = AllAlerts(snapshot)

\* C16 witness: values above, below and exactly on thresholds; the on-threshold values
\* (fasting 126, temperature 100.4) raise nothing and the others are listed in order.
C16_Witness ==
    /\ vpc = "once"
    /\ snapshot.bloodPressure.systolic = Num(141)
    /\ snapshot.bloodPressure.diastolic = Num(59)
    /\ snapshot.bloodSugar.fasting = Num(126)
    /\ snapshot.bloodSugar.postPrandial = Num(201)
    /\ snapshot.heartRate.value = Num(101)
    /\ snapshot.temperature.value = Num(1004)
    /\ snapshot.oxygenSaturation.value = Num(94)
    /\ alerts = << "High blood pressure detected", "Low blood pressure detected",
                   "High post-meal blood sugar", "Abnormal heart rate",
                   "Low oxygen saturation" >>

Fields(v) ==
    { v.bloodPressure.systolic, v.bloodPressure.diastolic, v.bloodSugar.fasting,
      v.bloodSugar.postPrandial, v.heartRate.value, v.temperature.value,
      v.oxygenSaturation.value }

\* the alerts that the present fields of the snapshot raise
RaisedByPresent(v) == {AllAlerts(v)[i] : i \in 1..Len(AllAlerts(v))}

----------------------------------------------------------------------------
(* Properties of the manual request and of deletion, under Spec *)

\* The documents processAIInsight can save for a file and user, over every outcome of
\* the download and of the external model
AutomaticInsights(fileId, userId) ==
    { BuildInsight(fileId, userId, [isBuffer |-> b],
                   analyzeMedicalReport([isBuffer |-> b], t, out, e)) :
        b \in BOOLEAN, t \in FileTypes, out \in ModelOutcomes, e \in Elapsed }

\* C18: the InsightRecord a manual analyze-file request leaves is one the background
\* job leaves for the same file and user under some outcome of fetch and model call.
C18_ManualEqualsAutomatic ==
    \A r \in ReqIds :
        LET d == insights[ReqInsightId(r)] IN
        d.exists => d \in AutomaticInsights(d.file, d.user)

\* the file named by request r does not exist or is not owned by the requesting user
NotFound(r) ==
    ~(files[req[r].fileId].exists /\ files[req[r].fileId].user = req[r].user)

\* C19: no step of a manual request naming a file that does not exist or is not the
\* user's (the lookup, and the error handler when the lookup itself rejects) changes
\* any file or insight, and a lookup that returns is answered with 404.
C19_NotFoundStartsNothing ==
    [][\A r \in ReqIds :
          (req'[r] # req[r] /\ req[r].pc \in {"find", "catch"} /\ NotFound(r))
          => /\ files' = files
             /\ insights' = insights
             /\ (req[r].pc = "find" /\ faults' = faults)
                   => (req'[r].pc = "done" /\ req'[r].resp = 404)]_vars

\* every analysis run of file f has finished
Quiet(f) ==
    /\ job[f].pc \in {"idle", "done"}
    /\ \A r \in ReqIds : req[r].pc \in {"idle", "done"}

\* C20: once DELETE has answered 200 for a file and every analysis run of that file
\* has finished, no InsightRecord of that file is in the store.
C20_DeleteRemovesInsights ==
    (del.pc = "done" /\ del.resp = 200 /\ Quiet(del.fileId))
    => \A i \in InsightIds : ~(insights[i].exists /\ insights[i].file = del.fileId)

----------------------------------------------------------------------------
(* Properties of the stored documents under every request, under CrudSpec *)

\* the fields of an AiInsight that the analysis wrote
Content(d) ==
    <<d.file, d.user, d.rawText, d.summary, d.keyFindings, d.recommendations,
      d.doctorQuestions, d.riskFactors, d.followUpRequired, d.followUpTimeframe,
      d.confidence, d.processingTime, d.model>>

ReviewFields(d) == <<d.isReviewed, d.reviewedBy, d.reviewedAt, d.reviewNotes>>

\* a step of the review request alone, which leaves insight i reviewed by its owner
ReviewStep(i) ==
    /\ <<files, job, req, del>>' = <<files, job, req, del>>
    /\ insights'[i].isReviewed
    /\ insights'[i].reviewedBy = insights[i].user
    /\ insights'[i].reviewedAt \in ReviewDates

\* C21 as stated: no step changes a field of an existing AiInsight other than
\* isReviewed, reviewedBy, reviewedAt and reviewNotes, and a step that changes one of
\* those four is a step of the review request.
C21_OnlyReviewFieldsChange ==
    [][\A i \in InsightIds :
          (insights[i].exists /\ insights'[i].exists)
          => /\ Content(insights'[i]) = Content(insights[i])
             /\ insights'[i].updatedAt = insights[i].updatedAt
             /\ ReviewFields(insights'[i]) # ReviewFields(insights[i]) => ReviewStep(i)]_vars

\* C21: no step changes the file, user, rawText, summary, keyFindings, recommendations,
\* doctorQuestions, riskFactors, follow-up fields, confidence, processingTime or model
\* of an AiInsight that exists before and after it; a step that changes isReviewed,
\* reviewedBy, reviewedAt, reviewNotes or updatedAt is a step of the review request
\* alone (no job, analyze-file request, delete request or file changes in it), which
\* leaves the insight reviewed by its owner and sets updatedAt with the four fields.
C21_ImmutableExceptReview ==
    [][\A i \in InsightIds :
          (insights[i].exists /\ insights'[i].exists)
          => /\ Content(insights'[i]) = Content(insights[i])
             /\ (\/ ReviewFields(insights'[i]) # ReviewFields(insights[i])
                 \/ insights'[i].updatedAt # insights[i].updatedAt)
                   => (ReviewStep(i) /\ insights'[i].updatedAt = insights'[i].reviewedAt)]_vars

\* C21 witness: the insight saved by a background job from the well-formed payload has
\* been reviewed with a note, and still carries the payload's confidence and the
\* job's model name.
C21_Witness ==
    \E f \in FileIds :
        LET d == insights[JobInsightId(f)] IN
        /\ d.exists
        /\ d.isReviewed /\ d.reviewedBy = d.user /\ d.reviewNotes = S("seen")
        /\ d.updatedAt \in ReviewDates
        /\ d.confidence = N(90)
        /\ d.model = "gemini-1.0-pro"
        /\ d.file = f

----------------------------------------------------------------------------
(* Properties of the upload request and of the stages of the job, under Spec *)

Pending201 == [resp |-> 201, processingStatus |-> "pending", isProcessed |-> FALSE]

\* C22: the step that saves the FileRecord as pending starts the job and sends the 201
\* response, which reports processingStatus pending and isProcessed false; the response
\* is there while the job has applied none of its stages, and no later step of the job,
\* whether it completes, fails or throws, changes it.
C22_UploadFireAndForget ==
    /\ [](\A f \in FileIds :
            /\ job[f].pc # "idle" <=> upl[f].resp = 201
            /\ upl[f].resp = 201 => upl[f] = Pending201)
    /\ [][\A f \in FileIds :
            /\ (job[f].pc = "idle" /\ job'[f].pc # "idle")
                  => /\ job'[f].pc = "setProcessing"
                     /\ files'[f].exists /\ files'[f].processingStatus = "pending"
                     /\ upl'[f] = Pending201
            /\ upl[f].resp = 201 => upl'[f] = upl[f]]_vars

\* C22 witness: the 201 response reports pending for a file whose job has since failed
C22_Witness ==
    \E f \in FileIds :
        /\ upl[f] = Pending201
        /\ job[f].ended = "failed"
        /\ files[f].processingStatus = "failed"

\* C23: every call of analyzeMedicalReport that the job makes, with image bytes or with
\* the text substituted after a failed download, has called model.generateContent
\* exactly once when it returns.
C23_ModelCalledOnce ==
    \A f \in FileIds : job[f].pc = "save" => job[f].result.modelCalls = 1

\* C24: in every reachable state a file whose processingStatus is completed has a
\* non-null aiInsight, and the AiInsight it names exists and has that file in its file
\* field.
C24_CompletedHasInsight ==
    \A f \in FileIds :
        (files[f].exists /\ files[f].processingStatus = "completed")
        => /\ files[f].aiInsight # 0
           /\ insights[files[f].aiInsight].exists
           /\ insights[files[f].aiInsight].file = f

\* the AiInsight documents in the store whose file field is f
InsightsOf(f) == {i \in InsightIds : insights[i].exists /\ insights[i].file = f}

\* C25: in every reachable state and for every file id, at most one AiInsight whose
\* file field is that id is in the store.
C25_OneInsightPerFile == \A f \in FileIds : Cardinality(InsightsOf(f)) <= 1

\* The order of the stages of one job: each pair is a stage and the one that follows it
StageOrder ==
    { <<"idle", "setProcessing">>, <<"setProcessing", "load">>, <<"load", "fetch">>,
      <<"load", "invoke">>, <<"fetch", "invoke">>, <<"invoke", "save">>,
      <<"save", "link">>, <<"link", "done">> }

\* a stage fails and the error handler runs, after which the job has ended
ErrorSteps ==
    {<<pc, "catch">> : pc \in {"setProcessing", "load", "invoke", "save", "link"}}
    \cup {<<"catch", "done">>}

\* C26: every step of a job passes from one stage to the next in the order set status
\* processing, load the file, fetch (image files only), invoke the model and normalize,
\* save the insight, link and set completed, or to the error handler; the step that
\* leaves the first stage has written processing, the fetch is entered from the load
\* for image files and skipped for the others, and a job that is fetching, invoking,
\* saving or linking has loaded its file.
C26_StagesInOrder ==
    /\ [](\A f \in FileIds :
            job[f].pc \in {"fetch", "invoke", "save", "link"} => job[f].loaded)
    /\ [][\A f \in FileIds :
            job'[f].pc # job[f].pc
            => /\ <<job[f].pc, job'[f].pc>> \in StageOrder \cup ErrorSteps
               /\ (job'[f].pc = "load" /\ files[f].exists)
                     => files'[f].processingStatus = "processing"
               /\ job'[f].pc = "fetch" => job[f].fileType = "image"
               /\ (job[f].pc = "load" /\ job'[f].pc = "invoke") => job[f].fileType # "image"
               /\ job'[f].pc = "save" => job'[f].result.data.k = "obj"
               /\ job'[f].pc = "link" => insights'[JobInsightId(f)].exists
               /\ (job[f].pc = "link" /\ job'[f].pc = "done" /\ files[f].exists)
                     => files'[f].processingStatus = "completed"]_vars

\* C26 witness: the job of an image file has run every stage: the bytes were fetched,
\* the model returned, the insight is saved and linked, and the status is completed.
C26_Witness ==
    \E f \in FileIds :
        /\ job[f].ended = "completed" /\ job[f].loaded
        /\ ~job[f].dlFailed /\ ~job[f].modelThrew /\ ~job[f].faulted
        /\ files[f].fileType = "image"
        /\ files[f].processingStatus = "completed"
        /\ files[f].aiInsight = JobInsightId(f)
        /\ insights[JobInsightId(f)].rawText = S("Image file: name")

----------------------------------------------------------------------------
(* Properties of the file update, under CrudSpec *)

\* the analysis state of a file
Analysis(file) == <<file.processingStatus, file.isProcessed, file.aiInsight>>

\* C27: a step that changes a descriptive field of a file leaves its processingStatus,
\* isProcessed and aiInsight as they were, whatever the request body holds; a step that
\* changes one of these three on an existing file is a step of the background job or
\* of a manual analyze-file request.
C27_UpdateKeepsAnalysisState ==
    [][\A f \in FileIds :
          (files[f].exists /\ files'[f].exists)
          => /\ files'[f].description # files[f].description
                   => Analysis(files'[f]) = Analysis(files[f])
             /\ Analysis(files'[f]) # Analysis(files[f])
                   => (job' # job \/ req' # req)]_vars

\* C27 witness: the description of a file was edited while its job was between the
\* model call and the save, and the file is still processing with no insight.
C27_Witness ==
    \E f \in FileIds :
        /\ files[f].exists
        /\ files[f].description = "edited"
        /\ job[f].pc = "save"
        /\ Analysis(files[f]) = <<"processing", FALSE, 0>>

----------------------------------------------------------------------------
(* Properties of the MIME detection, under MimeSpec *)

\* the first n bytes of a buffer, or all of it when it is shorter
Leading(buf, n) == SubSeq(buf, 1, IF n < Len(buf) THEN n ELSE Len(buf))

\* the type of each two-byte prefix: ff d8, 89 50, 47 49, 42 4d
TypeOfPrefix(lead) ==
    CASE lead = <<255, 216>> -> "image/jpeg"
      [] lead = <<137, 80>> -> "image/png"
      [] lead = <<71, 73>> -> "image/gif"
      [] lead = <<66, 77>> -> "image/bmp"
      [] OTHER -> "image/jpeg"

\* C28: the MIME type is one of image/jpeg, image/png, image/gif and image/bmp, it is
\* the same for two buffers with the same leading four bytes, a buffer that starts with
\* ff d8, 89 50, 47 49 or 42 4d gets the type of that prefix, and every other buffer,
\* one of fewer than four bytes included, gets image/jpeg.
C28_MimeFromLeadingBytes ==
    mime.pc = "done" =>
        /\ mime.type \in {"image/jpeg", "image/png", "image/gif", "image/bmp"}
        /\ mime.type = TypeOfPrefix(Leading(mime.buffer, 2))
        /\ \A other \in Buffers :
              Leading(other, 4) = Leading(mime.buffer, 4) => DetectMime(other) = mime.type

\* C28 witness: a five-byte buffer that starts with 89 50 has got image/png
C28_Witness ==
    /\ mime.pc = "done"
    /\ Len(mime.buffer) = 5
    /\ Leading(mime.buffer, 2) = <<137, 80>>
    /\ mime.type = "image/png"

----------------------------------------------------------------------------
(* Properties of the limiter, under LimitSpec *)

\* the number of requests of user u passed on at an instant t with a <= t < a + length
PassedWithin(u, a, length) ==
    Cardinality({i \in 1..Len(lim.passed[u]) :
                    a <= lim.passed[u][i] /\ lim.passed[u][i] < a + length})

\* a step in which a request is handled
RequestStep == lim' # lim /\ lim'.now = lim.now

\* the next request of user u would be answered 429
WouldLimit(l, u) == Len(Recent(l.attempts[u], l.now, l.windowMs)) >= l.max

\* C29: for every user and every window of windowMs instants [a, a + windowMs), at
\* most max requests of the user were passed on within the window; a request that is
\* answered 429 leaves the recorded attempts as they were; and a request of one user
\* changes neither the recorded attempts of another user nor whether that user's next
\* request passes.
C29_PerUserLimit ==
    /\ [](lim.pc = "on" =>
            \A u \in Users, a \in 0..MaxTime : PassedWithin(u, a, lim.windowMs) <= lim.max)
    /\ [][(lim.pc = "on" /\ RequestStep) =>
            /\ ~lim'.last.passed => (lim'.attempts = lim.attempts /\ lim'.passed = lim.passed)
            /\ \A v \in Users \ {lim'.last.user} :
                  /\ lim'.attempts[v] = lim.attempts[v]
                  /\ WouldLimit(lim', v) = WouldLimit(lim, v)]_vars

\* C29 witness: with max 2 and windowMs 2, user u1 had two requests passed at instant
\* 0 and two more at instant 2, a further request of u1 at instant 2 is answered 429,
\* and a request of u2 has passed at instant 0.
C29_Witness ==
    /\ lim.pc = "on"
    /\ lim.max = 2 /\ lim.windowMs = 2
    /\ lim.now = 2
    /\ lim.passed["u1"] = <<0, 0, 2, 2>>
    /\ lim.passed["u2"] = <<0>>
    /\ lim.last = [user |-> "u1", passed |-> FALSE, any |-> TRUE]

----------------------------------------------------------------------------
(* Owner isolation, under CrudSpec *)

\* the step belongs to the background job, or to an analyze-file or delete request
\* authenticated as user v
StepOfJobOrOf(v) ==
    \/ job' # job
    \/ \E r \in ReqIds : req'[r] # req[r] /\ req[r].pc # "idle" /\ req[r].user = v
    \/ del' # del /\ del.pc # "idle" /\ del.user = v

\* the step is a review of insight i by user v and of nothing else
ReviewBy(i, v) ==
    /\ <<files, job, req, del>>' = <<files, job, req, del>>
    /\ insights'[i].exists
    /\ Content(insights'[i]) = Content(insights[i])
    /\ insights'[i].reviewedBy = v

\* C30: a step that changes the processingStatus, isProcessed or aiInsight of a file,
\* or removes the file, or changes, removes or creates an AiInsight of a file, is a
\* step of the background job or of a request authenticated as the owner of that file;
\* no step of a request of another user changes any of them.
C30_OwnerIsolation ==
    [][/\ \A f \in FileIds :
             (files[f].exists /\ <<files'[f].exists, Analysis(files'[f])>>
                                    # <<files[f].exists, Analysis(files[f])>>)
             => StepOfJobOrOf(files[f].user)
       /\ \A i \in InsightIds :
             /\ (insights[i].exists /\ insights'[i] # insights[i])
                   => (StepOfJobOrOf(insights[i].user) \/ ReviewBy(i, insights[i].user))
             /\ (~insights[i].exists /\ insights'[i].exists)
                   => StepOfJobOrOf(files[insights'[i].file].user)]_vars

====
